---- MODULE Spec2Model ----
(***************************************************************************)
(* Model of src/main.py: the facial-symmetry scoring pipeline              *)
(* (calculate_distance, compute_symmetry_score, get_symmetry_level) and    *)
(* the POST /analyze request handler (analyze_image) running as coroutines *)
(* on one event loop.                                                      *)
(*                                                                         *)
(* Floats are modelled in fixed point.  Distances and ratios are in        *)
(* thousandths (1.618 is 1618, 1.0 is 1000); deviations and scores are in  *)
(* units of 10^-5 (1.0 is 100000), so that a score of 0.89999 is           *)
(* representable.  Quotients truncate.                                     *)
(***************************************************************************)
EXTENDS Integers, Sequences, FiniteSets, TLC

(***************************************************************************)
(* Bounds of the model.                                                    *)
(***************************************************************************)
\* image widths are 1..MaxWidth pixels, heights 1..MaxHeight pixels
MaxWidth == 4
MaxHeight == 3
\* number of POST /analyze requests in flight in the one process
NumRequests == 2

(***************************************************************************)
(* Fixed-point units.                                                      *)
(***************************************************************************)
\* 1.0 for distances and ratios (thousandths)
Milli == 10 ^ 3
\* 1.0 for deviations and scores
Unit == 10 ^ 5

Abs(n) == IF n < 0 THEN -n ELSE n
Min2(a, b) == IF b < a THEN b ELSE a
Max2(a, b) == IF b > a THEN b ELSE a

\* floor of the square root of n, by bisection on lo..hi
RECURSIVE SqrtBetween(_, _, _)
SqrtBetween(n, lo, hi) ==
    IF lo >= hi THEN lo
    ELSE LET mid == (lo + hi + 1) \div 2
         IN  IF mid * mid <= n THEN SqrtBetween(n, mid, hi)
                               ELSE SqrtBetween(n, lo, mid - 1)

\* math.sqrt of the integers that occur as squared pixel distances, in
\* thousandths, tabulated once
SqrtTable ==
    [n \in 0..(MaxWidth * MaxWidth + MaxHeight * MaxHeight) |->
        SqrtBetween(n * Milli * Milli, 0, 46340)]

Sqrt(n) == SqrtTable[n]

(***************************************************************************)
(* Golden ratio constant (thousandths).                                    *)
(***************************************************************************)
GOLDEN_RATIO == 1618

(***************************************************************************)
(* calculate_distance: Euclidean distance between two pixel points         *)
(* (tuples, point[0] is <<..>>[1]); result in thousandths of a pixel.      *)
(***************************************************************************)
calculate_distance(point1, point2) ==
    Sqrt((point2[1] - point1[1]) * (point2[1] - point1[1])
         + (point2[2] - point1[2]) * (point2[2] - point1[2]))

(***************************************************************************)
(* get_symmetry_level: score (units of 10^-5) to label.  The decorative    *)
(* symbol that follows each label in the source is left out.               *)
(***************************************************************************)
\* the first band with its lower bound excluded
get_symmetry_level_Open90(score) ==
    LET score_percent == score * 100
    IN  IF 90 * Unit < score_percent /\ score_percent <= 100 * Unit
            THEN "Divine Symmetry"
        ELSE IF 75 * Unit <= score_percent /\ score_percent < 90 * Unit
            THEN "Elegant Harmony"
        ELSE IF 60 * Unit <= score_percent /\ score_percent < 75 * Unit
            THEN "Refined Balance"
        ELSE IF 40 * Unit <= score_percent /\ score_percent < 60 * Unit
            THEN "Natural Allure"
        ELSE "Authentic Beauty"

get_symmetry_level(score) ==
    LET score_percent == score * 100
    IN  IF 90 * Unit <= score_percent /\ score_percent <= 100 * Unit
            THEN "Divine Symmetry"
        ELSE IF 75 * Unit <= score_percent /\ score_percent < 90 * Unit
            THEN "Elegant Harmony"
        ELSE IF 60 * Unit <= score_percent /\ score_percent < 75 * Unit
            THEN "Refined Balance"
        ELSE IF 40 * Unit <= score_percent /\ score_percent < 60 * Unit
            THEN "Natural Allure"
        ELSE "Authentic Beauty"

(***************************************************************************)
(* Exceptions and call outcomes.                                           *)
(***************************************************************************)
HTTPException(status_code, detail) ==
    [type |-> "HTTPException", status_code |-> status_code, detail |-> detail]

\* any other exception, carrying its message text
Exception(text) == [type |-> "Exception", status_code |-> 0, detail |-> text]

NoException == [type |-> "None", status_code |-> 0, detail |-> ""]

Return(value) == [kind |-> "return", value |-> value, exc |-> NoException]
Raise(exc) == [kind |-> "raise", value |-> 0, exc |-> exc]

\* Python's float true division x / y, result in thousandths
TrueDiv(x, y) ==
    IF y = 0 THEN Raise(Exception("float division by zero"))
             ELSE Return((x * Milli) \div y)

(***************************************************************************)
(* compute_symmetry_score, in the order of the source.                     *)
(***************************************************************************)
\* the landmark indices the function reads
LandmarkIdx == {33, 263, 1, 234, 454, 61, 291, 152, 10}

\* landmarks[i] scaled to pixel coordinates
Pixel(landmarks, i, image) ==
    <<landmarks[i][1] * image.width, landmarks[i][2] * image.height>>

KeyPoints(landmarks, image) ==
    [left_eye        |-> Pixel(landmarks, 33, image),
     right_eye       |-> Pixel(landmarks, 263, image),
     nose_tip        |-> Pixel(landmarks, 1, image),
     nose_left       |-> Pixel(landmarks, 234, image),
     nose_right      |-> Pixel(landmarks, 454, image),
     mouth_left      |-> Pixel(landmarks, 61, image),
     mouth_right     |-> Pixel(landmarks, 291, image),
     chin            |-> Pixel(landmarks, 152, image),
     forehead        |-> Pixel(landmarks, 10, image),
     left_face_edge  |-> Pixel(landmarks, 234, image),
     right_face_edge |-> Pixel(landmarks, 454, image)]

KeyDistances(p) ==
    [eye_distance     |-> calculate_distance(p.left_eye, p.right_eye),
     nose_width       |-> calculate_distance(p.nose_left, p.nose_right),
     mouth_width      |-> calculate_distance(p.mouth_left, p.mouth_right),
     face_width       |-> calculate_distance(p.left_face_edge, p.right_face_edge),
     forehead_to_eyes |-> calculate_distance(p.forehead, p.left_eye),
     eyes_to_chin     |-> calculate_distance(p.left_eye, p.chin),
     eye_to_nose      |-> calculate_distance(p.left_eye, p.nose_tip),
     nose_to_chin     |-> calculate_distance(p.nose_tip, p.chin)]

\* the division without its guard
Ratio_Unguarded(numerator, denominator) == TrueDiv(numerator, denominator)

\* the fallback taken to be the golden ratio itself
Ratio_GoldenFallback(numerator, denominator) ==
    IF denominator # 0 THEN TrueDiv(numerator, denominator)
                       ELSE Return(GOLDEN_RATIO)

\* numerator / denominator if denominator != 0 else 1.0
Ratio(numerator, denominator) ==
    IF denominator # 0 THEN TrueDiv(numerator, denominator) ELSE Return(Milli)

\* the list of four ratios; each entry is the outcome of its expression
Ratios(d) ==
    <<Ratio(d.face_width, d.eye_distance),
      Ratio(d.forehead_to_eyes, d.eyes_to_chin),
      Ratio(d.nose_width, d.mouth_width),
      Ratio(d.eye_to_nose, d.nose_to_chin)>>

\* the deviation without its cap
Deviation_Uncapped(ratio) == (Abs(ratio - GOLDEN_RATIO) * Unit) \div GOLDEN_RATIO

\* min(abs(ratio - GOLDEN_RATIO) / GOLDEN_RATIO, 1.0)
Deviation(ratio) ==
    Min2((Abs(ratio - GOLDEN_RATIO) * Unit) \div GOLDEN_RATIO, Unit)

ratio_deviations(ratios) == [i \in 1..Len(ratios) |-> Deviation(ratios[i].value)]

RECURSIVE SumSeq(_)
SumSeq(s) == IF s = <<>> THEN 0 ELSE Head(s) + SumSeq(Tail(s))

\* the sum taken for the average
avg_deviation_Sum(deviations) == SumSeq(deviations)

avg_deviation(deviations) == SumSeq(deviations) \div Len(deviations)

\* the scaling factor 0.5 in place of 0.3
symmetry_score_Half(avg) == Max2(0, Unit - (avg * 5) \div 10)

\* max(0.0, 1.0 - avg_deviation * 0.3)
symmetry_score(avg) == Max2(0, Unit - (avg * 3) \div 10)

\* round(x, 2): nearest hundredth, ties to even
Round2(x) ==
    LET step == Unit \div 100
        q == x \div step
        r == x % step
    IN  IF 2 * r > step \/ (2 * r = step /\ q % 2 = 1) THEN (q + 1) * step
                                                     ELSE q * step

\* results of face_mesh.process: it raises, or returns its result object
NoFace == [multi_face_landmarks |-> <<>>]
Face(landmarks) == [multi_face_landmarks |-> <<landmarks>>]

\* lines 104-114: the score of a list of ratios
ScoreOfRatios(ratios) ==
    Round2(symmetry_score(avg_deviation(ratio_deviations(ratios))))

\* the first exception raised while the list of ratios is built, if any
RECURSIVE FirstRaise(_)
FirstRaise(outcomes) ==
    IF outcomes = <<>> THEN Return(0)
    ELSE IF Head(outcomes).kind = "raise" THEN Head(outcomes)
    ELSE FirstRaise(Tail(outcomes))

\* lines 91-114, from the eight distances
ScoreOfDistances(d) ==
    LET ratios == Ratios(d)
    IN  IF FirstRaise(ratios).kind = "raise" THEN FirstRaise(ratios)
        ELSE Return(ScoreOfRatios(ratios))

\* compute_symmetry_score(image), given what face_mesh.process(image_np)
\* does on this image: it raises, or returns its result object
compute_symmetry_score(image, process) ==
    IF process.kind = "raise" THEN Raise(process.exc)
    ELSE IF process.value.multi_face_landmarks = <<>>
        THEN Raise(HTTPException(400, "No face detected in the image"))
    ELSE ScoreOfDistances(
             KeyDistances(KeyPoints(process.value.multi_face_landmarks[1], image)))

(***************************************************************************)
(* Inputs.                                                                 *)
(***************************************************************************)
Images == [width : 1..MaxWidth, height : 1..MaxHeight]

\* normalized landmark positions: three corners of the image
Corners == {<<0, 0>>, <<1, 0>>, <<0, 1>>}
Landmarks == [LandmarkIdx -> Corners]

\* uploads' content types
ContentTypes == {"image/png", "text/plain", "", "imag", "ximage/png"}

\* messages of the exceptions that reading, decoding and inference raise
FailureTexts == {"cannot identify image file", "out of memory"}

\* faces the requests' images show: from every landmark in one corner (all
\* distances zero) to landmarks spread over the three corners
SampleLandmarks ==
    {[i \in LandmarkIdx |-> IF i \in far THEN <<1, 0>>
                            ELSE IF i \in low THEN <<0, 1>> ELSE <<0, 0>>] :
        far \in {{}, {263, 291, 152}, {263, 454, 152}}, low \in {{}, {10, 61}}}

(***************************************************************************)
(* analyze_image: the POST /analyze handler.                               *)
(***************************************************************************)
\* prefix in s
StartsWith_Contains(s, prefix) ==
    \E i \in 1..(Len(s) - Len(prefix) + 1) : SubSeq(s, i, i + Len(prefix) - 1) = prefix

\* s.startswith(prefix)
StartsWith(s, prefix) ==
    Len(s) >= Len(prefix) /\ SubSeq(s, 1, Len(prefix)) = prefix

\* the values str(e) can take.  For an HTTPException it is the status and the
\* detail, or the empty string, depending on the installed framework version.
Str(e) ==
    IF e.type = "HTTPException"
        THEN {ToString(e.status_code) \o ": " \o e.detail, ""}
        ELSE {e.detail}

\* f"{score:.2f}" of a score already rounded to hundredths
Format2f(score) ==
    LET cents == (score % Unit) \div (Unit \div 100)
    IN  ToString(score \div Unit) \o "."
            \o ToString(cents \div 10) \o ToString(cents % 10)

NoBody == [symmetry_score |-> 0, symmetry_level |-> "", message |-> ""]

\* the response the framework sends for an HTTPException leaving the handler
ErrorResponse(e) ==
    [status_code |-> e.status_code, detail |-> e.detail, body |-> NoBody]

\* lines 135-144: the response of a request whose score was computed
SuccessResponse(score) ==
    LET level == get_symmetry_level(score)
    IN  [status_code |-> 200, detail |-> "",
         body |-> [symmetry_score |-> score,
                   symmetry_level |-> level,
                   message |-> "Your face has a symmetry score of "
                       \o Format2f(score)
                       \o " (closer to 1 is more symmetrical), earning the '"
                       \o level
                       \o "' level! This is for fun and does not reflect beauty or worth!"]]

\* the detail without the exception's text
ExceptHandler_NoText(text) ==
    ErrorResponse(HTTPException(500, "Error processing image: "))

\* lines 145-146: except Exception as e, with text one of the values of str(e)
ExceptHandler(text) ==
    ErrorResponse(HTTPException(500, "Error processing image: " \o text))

VARIABLES
    pc,            \* each request's position in analyze_image
    content_type,  \* file.content_type of each request
    image,         \* the decoded image of each request
    sent,          \* the responses each request's caller has received
    calls,         \* how often each request read, decoded, ran inference
    failure,       \* what went wrong in each request, and its message
    scoreRun,      \* one run of compute_symmetry_score, step by step
    levelRun       \* one call of get_symmetry_level

vars == <<pc, content_type, image, sent, calls, failure, scoreRun, levelRun>>
handlerVars == <<pc, content_type, image, sent, calls, failure>>

Requests == 1..NumRequests

NoImage == [width |-> 0, height |-> 0]
NoFailure == [stage |-> "none", text |-> ""]
ScoreIdle == [phase |-> "idle"]
LevelIdle == [phase |-> "idle", score |-> 0, level |-> ""]

\* A coroutine that is not running: not yet started, parked at its await, or
\* finished.  In "decode" and "in_process" it is between suspension points.
Suspended(r) == pc[r] \in {"start", "reading", "done"}

\* requests run on threads of their own
CanRun_Threaded(r) == TRUE

\* analyze_image is a coroutine function: the event loop lets a request take
\* a step out of a suspension point only while no other request is running.
CanRun(r) == \A q \in Requests \ {r} : Suspended(q)

HandlerInit ==
    /\ pc = [r \in Requests |-> "start"]
    /\ content_type \in [Requests -> ContentTypes]
    /\ image = [r \in Requests |-> NoImage]
    /\ sent = [r \in Requests |-> <<>>]
    /\ calls = [r \in Requests |-> [read |-> 0, decode |-> 0, process |-> 0]]
    /\ failure = [r \in Requests |-> NoFailure]

\* the handler ends with a response; its locals are discarded
Respond(r, response) ==
    /\ sent' = [sent EXCEPT ![r] = Append(@, response)]
    /\ pc' = [pc EXCEPT ![r] = "done"]
    /\ image' = [image EXCEPT ![r] = NoImage]

\* lines 125-130: the content type check, then the call of file.read()
CheckContentType(r) ==
    /\ pc[r] = "start"
    /\ CanRun(r)
    /\ IF ~StartsWith(content_type[r], "image/")
           THEN /\ Respond(r, ErrorResponse(HTTPException(400, "File must be an image")))
                /\ UNCHANGED calls
           ELSE /\ pc' = [pc EXCEPT ![r] = "reading"]
                /\ calls' = [calls EXCEPT ![r].read = @ + 1]
                /\ UNCHANGED <<sent, image>>
    /\ UNCHANGED <<content_type, failure, scoreRun, levelRun>>

\* line 130: await file.read() completes, with the bytes or an exception
Read(r) ==
    /\ pc[r] = "reading"
    /\ CanRun(r)
    /\ \/ /\ pc' = [pc EXCEPT ![r] = "decode"]
          /\ UNCHANGED <<sent, failure, image>>
       \/ \E text \in FailureTexts : \E s \in Str(Exception(text)) :
             /\ failure' = [failure EXCEPT ![r] = [stage |-> "read", text |-> text]]
             /\ Respond(r, ExceptHandler(s))
    /\ UNCHANGED <<content_type, calls, scoreRun, levelRun>>

\* line 131: Image.open(...).convert("RGB"); on success control enters
\* compute_symmetry_score and calls face_mesh.process (lines 53-56)
Decode(r) ==
    /\ pc[r] = "decode"
    /\ \/ \E img \in Images :
             /\ image' = [image EXCEPT ![r] = img]
             /\ pc' = [pc EXCEPT ![r] = "in_process"]
             /\ calls' = [calls EXCEPT ![r].decode = @ + 1, ![r].process = @ + 1]
             /\ UNCHANGED <<sent, failure>>
       \/ \E text \in FailureTexts : \E s \in Str(Exception(text)) :
             /\ failure' = [failure EXCEPT ![r] = [stage |-> "decode", text |-> text]]
             /\ calls' = [calls EXCEPT ![r].decode = @ + 1]
             /\ Respond(r, ExceptHandler(s))
    /\ UNCHANGED <<content_type, scoreRun, levelRun>>

FailureOf(process) ==
    IF process.kind = "raise"
        THEN [stage |-> "process", text |-> process.exc.detail]
    ELSE IF process.value = NoFace THEN [stage |-> "noface", text |-> ""]
    ELSE NoFailure

\* lines 56-114 and 134-146 for one outcome of face_mesh.process: the score
\* is computed, and the handler returns the body or its except clause runs
Finish(r, process) ==
    LET outcome == compute_symmetry_score(image[r], process)
    IN  /\ failure' = [failure EXCEPT ![r] = FailureOf(process)]
        /\ IF outcome.kind = "return"
               THEN Respond(r, SuccessResponse(outcome.value))
               ELSE \E s \in Str(outcome.exc) : Respond(r, ExceptHandler(s))

\* face_mesh.process raises, finds no face, or finds a face
Process(r) ==
    /\ pc[r] = "in_process"
    /\ \/ \E text \in FailureTexts : Finish(r, Raise(Exception(text)))
       \/ Finish(r, Return(NoFace))
       \/ \E landmarks \in SampleLandmarks : Finish(r, Return(Face(landmarks)))
    /\ UNCHANGED <<content_type, calls, scoreRun, levelRun>>

Init ==
    /\ HandlerInit
    /\ scoreRun = ScoreIdle
    /\ levelRun = LevelIdle

Next ==
    \E r \in Requests :
        \/ CheckContentType(r)
        \/ Read(r)
        \/ Decode(r)
        \/ Process(r)

Spec == Init /\ [][Next]_vars

(***************************************************************************)
(* compute_symmetry_score step by step, for every image and every landmark *)
(* set of the bounded input sets, followed by the handler's success path.  *)
(***************************************************************************)
\* no request has arrived
HandlerIdle ==
    /\ pc = [r \in Requests |-> "start"]
    /\ content_type = [r \in Requests |-> "image/png"]
    /\ image = [r \in Requests |-> NoImage]
    /\ sent = [r \in Requests |-> <<>>]
    /\ calls = [r \in Requests |-> [read |-> 0, decode |-> 0, process |-> 0]]
    /\ failure = [r \in Requests |-> NoFailure]

ScoreInit ==
    /\ HandlerIdle
    /\ scoreRun = ScoreIdle
    /\ levelRun = LevelIdle

\* lines 56-84: a face is found, the key points and distances are computed
ScoreCall ==
    /\ scoreRun.phase = "idle"
    /\ \E img \in Images, landmarks \in Landmarks :
          scoreRun' = [phase |-> "distances", image |-> img,
                       distances |-> KeyDistances(KeyPoints(landmarks, img))]
    /\ UNCHANGED <<handlerVars, levelRun>>

\* lines 91-97: the list of ratios; an exception ends the call
ScoreRatios ==
    /\ scoreRun.phase = "distances"
    /\ LET ratios == Ratios(scoreRun.distances)
       IN  scoreRun' =
               IF FirstRaise(ratios).kind = "raise"
                   THEN [phase |-> "done", ratios |-> ratios,
                         outcome |-> FirstRaise(ratios)] @@ scoreRun
                   ELSE [phase |-> "ratios", ratios |-> ratios] @@ scoreRun
    /\ UNCHANGED <<handlerVars, levelRun>>

\* lines 104-106
ScoreDeviations ==
    /\ scoreRun.phase = "ratios"
    /\ LET deviations == ratio_deviations(scoreRun.ratios)
       IN  scoreRun' = [phase |-> "deviations", deviations |-> deviations,
                        avg_deviation |-> avg_deviation(deviations)] @@ scoreRun
    /\ UNCHANGED <<handlerVars, levelRun>>

\* lines 108-114
ScoreReturn ==
    /\ scoreRun.phase = "deviations"
    /\ scoreRun' =
           [phase |-> "done",
            outcome |-> Return(Round2(symmetry_score(scoreRun.avg_deviation)))]
               @@ scoreRun
    /\ UNCHANGED <<handlerVars, levelRun>>

\* lines 134-144: the handler's response to the returned score
ScoreRespond ==
    /\ scoreRun.phase = "done"
    /\ scoreRun.outcome.kind = "return"
    /\ scoreRun' = [phase |-> "responded",
                    response |-> SuccessResponse(scoreRun.outcome.value)]
                       @@ scoreRun
    /\ UNCHANGED <<handlerVars, levelRun>>

ScoreNext ==
    \/ ScoreCall
    \/ ScoreRatios
    \/ ScoreDeviations
    \/ ScoreReturn
    \/ ScoreRespond

SpecScore == ScoreInit /\ [][ScoreNext]_vars

(***************************************************************************)
(* get_symmetry_level on every score of [0,1] in steps of 10^-5.           *)
(***************************************************************************)
LevelInit ==
    /\ HandlerIdle
    /\ scoreRun = ScoreIdle
    /\ levelRun \in {[phase |-> "called", score |-> score, level |-> ""] :
                        score \in 0..Unit}

LevelReturn ==
    /\ levelRun.phase = "called"
    /\ levelRun' = [levelRun EXCEPT !.phase = "returned",
                                    !.level = get_symmetry_level(levelRun.score)]
    /\ UNCHANGED <<handlerVars, scoreRun>>

LevelNext == LevelReturn

SpecLevel == LevelInit /\ [][LevelNext]_vars

(***************************************************************************)
(* Properties of the handler (Spec).                                       *)
(***************************************************************************)
Done(r) == pc[r] = "done"

NonImageTypes == {"text/plain", "", "imag", "ximage/png"}

\* C1: a request with an image content type whose bytes decode and in whose
\* image the Landmark Provider finds no face is answered with status 400 and
\* detail "No face detected in the image".
C1_NoFaceAnswered400 ==
    \A r \in Requests :
        (Done(r) /\ failure[r].stage = "noface") =>
            /\ Len(sent[r]) = 1
            /\ sent[r][1].status_code = 400
            /\ sent[r][1].detail = "No face detected in the image"

C3_FailureIs500Once ==
    \A r \in Requests :
        /\ calls[r].read <= 1 /\ calls[r].decode <= 1 /\ calls[r].process <= 1
        /\ Len(sent[r]) <= 1
        /\ (Done(r) /\ failure[r].stage \in {"read", "decode", "process"}) =>
               sent[r] = <<[status_code |-> 500,
                            detail |-> "Error processing image: " \o failure[r].text,
                            body |-> NoBody]>>

C3_Witness ==
    \E r, q \in Requests :
        /\ Done(r) /\ failure[r].stage = "decode"
        /\ Done(q) /\ failure[q].stage = "process"

\* C9: at no instant are two requests both inside face_mesh.process.
InProcess == {r \in Requests : pc[r] = "in_process"}

C9_ProviderSerialized == Cardinality(InProcess) <= 1

C9_Witness ==
    \E r, q \in Requests : pc[r] = "in_process" /\ pc[q] = "reading"

(***************************************************************************)
(* Properties of compute_symmetry_score (SpecScore).                       *)
(***************************************************************************)
HasRatios == scoreRun.phase \in {"ratios", "deviations", "done", "responded"}
Returned == scoreRun.phase \in {"done", "responded"}
HasDeviations ==
    \/ scoreRun.phase = "deviations"
    \/ Returned /\ scoreRun.outcome.kind = "return"

\* the denominators of the four ratios, in the order of the ratios
Denominators(d) ==
    <<d.eye_distance, d.eyes_to_chin, d.mouth_width, d.nose_to_chin>>

ZeroDenominators == {i \in 1..4 : Denominators(scoreRun.distances)[i] = 0}

\* C4: each of the four ratio deviations lies in [0,1] and the returned
\* score lies in [0,1].
C4_DeviationsAndScoreInUnitInterval ==
    /\ HasDeviations =>
           \A i \in 1..4 : 0 <= scoreRun.deviations[i] /\ scoreRun.deviations[i] <= Unit
    /\ (Returned /\ scoreRun.outcome.kind = "return") =>
           0 <= scoreRun.outcome.value /\ scoreRun.outcome.value <= Unit

\* a capped deviation next to an uncapped one, and a score returned
C4_Witness ==
    /\ Returned /\ scoreRun.outcome.kind = "return"
    /\ \E i \in 1..4 : scoreRun.ratios[i].value > 2 * GOLDEN_RATIO
    /\ \E i \in 1..4 : scoreRun.deviations[i] \in 1..(Unit - 1)

\* C6: with one or more denominators exactly zero no error is raised, each
\* ratio with a zero denominator is 1.0, and a score is returned.
C6_ZeroDenominatorFallsBack ==
    (HasRatios /\ ZeroDenominators # {}) =>
        /\ \A i \in ZeroDenominators : scoreRun.ratios[i] = Return(Milli)
        /\ Returned => scoreRun.outcome.kind = "return"

C6_Witness ==
    /\ Returned
    /\ scoreRun.distances.mouth_width = 0
    /\ ZeroDenominators = {3}
    /\ scoreRun.outcome.kind = "return"

AllClamped == HasDeviations /\ \A i \in 1..4 : scoreRun.deviations[i] = Unit

\* C7: when all four deviations equal 1.0 the returned score is exactly 0.70
\* and its level is "Refined Balance".
C7_FullClampScores070 ==
    AllClamped =>
        /\ Returned => scoreRun.outcome = Return(70 * (Unit \div 100))
        /\ scoreRun.phase = "responded" =>
               scoreRun.response.body.symmetry_level = "Refined Balance"

C7_Witness == AllClamped /\ scoreRun.phase = "responded"

\* C8 as stated: a ratio with a zero denominator is 1.0 and contributes a
\* deviation of 0, and four zero denominators yield score 1.0.
C8_FallbackDeviatesByZero ==
    /\ (HasRatios /\ ZeroDenominators # {}) =>
           \A i \in ZeroDenominators : scoreRun.ratios[i] = Return(Milli)
    /\ HasDeviations =>
           \A i \in ZeroDenominators : scoreRun.deviations[i] = 0
    /\ (Returned /\ ZeroDenominators = 1..4) => scoreRun.outcome = Return(Unit)

\* C8 amended: a ratio with a zero denominator is 1.0 and contributes the
\* deviation of the ratio 1.0, |1.0 - 1.618| / 1.618 = 0.38195, and four zero
\* denominators yield score 0.89.
C8_FallbackDeviatesAsRatioOne ==
    /\ (HasRatios /\ ZeroDenominators # {}) =>
           \A i \in ZeroDenominators : scoreRun.ratios[i] = Return(Milli)
    /\ HasDeviations =>
           \A i \in ZeroDenominators : scoreRun.deviations[i] = 38195
    /\ (Returned /\ ZeroDenominators = 1..4) =>
           scoreRun.outcome = Return(89 * (Unit \div 100))

C8_Witness == Returned /\ ZeroDenominators = 1..4

\* C10: every 200 response carries a score in [0.70, 1.00] and one of the
\* levels "Divine Symmetry", "Elegant Harmony", "Refined Balance".
C10_SuccessScoreAtLeast070 ==
    scoreRun.phase = "responded" =>
        /\ scoreRun.response.status_code = 200
        /\ 70 * (Unit \div 100) <= scoreRun.response.body.symmetry_score
        /\ scoreRun.response.body.symmetry_score <= Unit
        /\ scoreRun.response.body.symmetry_level \in
               {"Divine Symmetry", "Elegant Harmony", "Refined Balance"}

C10_Witness ==
    /\ scoreRun.phase = "responded"
    /\ scoreRun.response.body.symmetry_level = "Divine Symmetry"
    /\ \E i \in 1..4 : scoreRun.deviations[i] = Unit

(***************************************************************************)
(* Properties of get_symmetry_level (SpecLevel).                           *)
(***************************************************************************)
\* the bands of score x 100, in units of 10^-3 percent
Bands ==
    {[lo |-> 90000, hi |-> 100000, closed |-> TRUE,  label |-> "Divine Symmetry"],
     [lo |-> 75000, hi |-> 90000,  closed |-> FALSE, label |-> "Elegant Harmony"],
     [lo |-> 60000, hi |-> 75000,  closed |-> FALSE, label |-> "Refined Balance"],
     [lo |-> 40000, hi |-> 60000,  closed |-> FALSE, label |-> "Natural Allure"],
     [lo |-> 0,     hi |-> 40000,  closed |-> FALSE, label |-> "Authentic Beauty"]}

\* score (units of 10^-5) x 100 is the same number in units of 10^-3 percent
InBand(b, score) ==
    b.lo <= score /\ (score < b.hi \/ (b.closed /\ score = b.hi))

BandsOf(score) == {b \in Bands : InBand(b, score)}

\* C5: for every score in [0,1] the label is that of the one band containing
\* score x 100; 90.0 is "Divine Symmetry", 89.999 "Elegant Harmony", 40.0
\* "Natural Allure" and 39.999 "Authentic Beauty".
C5_LabelOfUniqueBand ==
    /\ Cardinality(BandsOf(levelRun.score)) = 1
    /\ levelRun.phase = "returned" =>
           /\ \A b \in BandsOf(levelRun.score) : levelRun.level = b.label
           /\ levelRun.score = 90000 => levelRun.level = "Divine Symmetry"
           /\ levelRun.score = 89999 => levelRun.level = "Elegant Harmony"
           /\ levelRun.score = 40000 => levelRun.level = "Natural Allure"
           /\ levelRun.score = 39999 => levelRun.level = "Authentic Beauty"

C5_Witness == levelRun.phase = "returned" /\ levelRun.score = 89999

====
